---- MODULE Spec2Model ----
(***************************************************************************)
(* A model of filmdb.py: the synchronisation of the movies, people,        *)
(* alt_titles and credits tables against the TMDb source, one transaction  *)
(* per run.  Strings are sequences of one-character strings, so that       *)
(* strip, lower and slicing are computed as Python and SQL compute them.   *)
(***************************************************************************)
EXTENDS Integers, Sequences, FiniteSets, TLC

\* ------------------------------------------------------------------ bounds
\* The number of executions of the program that are modelled.
MaxRuns == 2
\* The number of candidates the source returns over one whole walk.
MaxCands == 2

\* --------------------------------------------------------- program constants
START_YEAR == 2018
END_YEAR == 2025
ACTOR_LIMIT == 5
\* insert_movie: trim(movie["title"], 100)
TitleLimit == 100
\* upsert_people: trim(person["first_name"], 30), trim(person["surname"], 30)
NameLimit == 30
\* upsert_alt_titles: trim(t, 250)
AltTitleLimit == 250
\* tmdb_discover: min(data.get("total_pages", 1), 500)
PageCeiling == 500
\* born if born is not None else -1
UnknownBorn == 0 - 1
\* The four (start, end) pairs of RANGES, by index.
RANGES == <<1, 2, 3, 4>>

\* ------------------------------------------------------------------ strings
\* Python's None, for a string field and for an optional integer.
None == <<"None">>
NoInt == {}

Min(a, b) == IF a <= b THEN a ELSE b

IsSpace(c) == c = " "

\* str.lower() and SQL LOWER(), one character at a time.
LowerChar(c) ==
    CASE c = "A" -> "a"
      [] c = "B" -> "b"
      [] c = "C" -> "c"
      [] c = "D" -> "d"
      [] c = "E" -> "e"
      [] c = "F" -> "f"
      [] c = "K" -> "k"
      [] c = "L" -> "l"
      [] c = "R" -> "r"
      [] c = "U" -> "u"
      [] c = "S" -> "s"
      [] c = "X" -> "x"
      [] c = "Z" -> "z"
      [] OTHER -> c

Lower(s) == [i \in 1..Len(s) |-> LowerChar(s[i])]

\* str.strip(): without the blanks at the start and at the end.
RECURSIVE LStrip(_)
LStrip(s) == IF s = <<>> \/ ~IsSpace(Head(s)) THEN s ELSE LStrip(Tail(s))

RECURSIVE RStrip(_)
RStrip(s) == IF s = <<>> \/ ~IsSpace(s[Len(s)]) THEN s ELSE RStrip(SubSeq(s, 1, Len(s) - 1))

Strip(s) == RStrip(LStrip(s))

\* s[:limit]
Slice(s, limit) == SubSeq(s, 1, Min(Len(s), limit))

trim(s, limit) == IF s = None THEN <<>> ELSE Slice(Strip(s), limit)

\* (x or ""): None and the empty string both give the empty string.
OrEmpty(s) == IF s = None THEN <<>> ELSE s

\* (a or b) on strings.
OrStr(a, b) == IF a = None \/ a = <<>> THEN b ELSE a

norm_title(t) == Lower(Strip(OrEmpty(t)))

gender_map(g) ==
    IF g = 1 THEN "F"
    ELSE IF g = 2 THEN "M"
    ELSE "?"

\* str.split(): the maximal runs of non-space characters, in order.
RECURSIVE Tokens(_)
Tokens(s) ==
    LET t == Strip(s)
    IN  IF t = <<>> THEN <<>>
        ELSE LET sp == {i \in 1..Len(t) : IsSpace(t[i])}
             IN  IF sp = {} THEN <<t>>
                 ELSE LET cut == CHOOSE i \in sp : \A j \in sp : i <= j
                      IN  <<SubSeq(t, 1, cut - 1)>> \o Tokens(SubSeq(t, cut + 1, Len(t)))

\* " ".join(parts)
RECURSIVE Join(_)
Join(parts) ==
    IF parts = <<>> THEN <<>>
    ELSE IF Len(parts) = 1 THEN parts[1]
    ELSE parts[1] \o <<" ">> \o Join(Tail(parts))

\* split_name: <<first name, surname>>
split_name(full_name) ==
    LET parts == Tokens(OrEmpty(full_name))
    IN  IF parts = <<>> THEN << <<>>, <<>> >>
        ELSE IF Len(parts) = 1 THEN << <<>>, parts[1] >>
        ELSE << Join(SubSeq(parts, 1, Len(parts) - 1)), parts[Len(parts)] >>

\* The decimal digits int() accepts.
DigitVal(c) ==
    CASE c = "0" -> 0 [] c = "1" -> 1 [] c = "2" -> 2 [] c = "3" -> 3
      [] c = "4" -> 4 [] c = "5" -> 5 [] c = "6" -> 6 [] c = "7" -> 7
      [] c = "8" -> 8 [] c = "9" -> 9 [] OTHER -> 0 - 1

RECURSIVE DigitsValue(_)
DigitsValue(s) ==
    IF s = <<>> THEN 0
    ELSE 10 * DigitsValue(SubSeq(s, 1, Len(s) - 1)) + DigitVal(s[Len(s)])

\* date_str.split("-")[0]
BeforeDash(s) ==
    LET d == {i \in 1..Len(s) : s[i] = "-"}
    IN  IF d = {} THEN s
        ELSE SubSeq(s, 1, (CHOOSE i \in d : \A j \in d : i <= j) - 1)

\* year_or_none: {} for None, {y} for the parsed year.  int() strips blanks and
\* wants at least one digit and nothing but digits; anything else raises and gives None.
year_or_none(date_str) ==
    IF date_str = None \/ date_str = <<>> THEN NoInt
    ELSE LET h == Strip(BeforeDash(date_str))
         IN  IF h # <<>> /\ \A i \in 1..Len(h) : DigitVal(h[i]) >= 0
             THEN {DigitsValue(h)}
             ELSE NoInt

\* derive_country without the membership test.
derive_country_unchecked(detail, countrySet) ==
    IF detail.production_countries # <<>>
    THEN Lower(OrEmpty(detail.production_countries[1]))
    ELSE <<>>

\* derive_country: the first production country, lower-cased, if the loaded
\* country set has it; the empty string otherwise.
derive_country(detail, countrySet) ==
    LET pcs == detail.production_countries
    IN  IF pcs # <<>>
        THEN LET code == Lower(OrEmpty(pcs[1]))
             IN  IF code # <<>> /\ code \in countrySet THEN code ELSE <<>>
        ELSE <<>>

\* ------------------------------------------------------------- source data
\* What the TMDb source answers.  The catalogue is a fixed set of movies and
\* persons chosen to have: a title of more than 100 characters, two titles
\* that differ only after the 100th, a title in upper case between blanks,
\* dates outside the window, absent and unparsable, countries absent
\* and unknown, persons with the same name under different ids, names that
\* become equal when cut to 30, and a first name with a blank at position 30.
Pad(n, c) == [i \in 1..n |-> c]

TmdbIds == 1..5
PersonIds == 1..11

D_2021 == <<"2","0","2","1","-","0","3","-","1","5">>
D_2018 == <<"2","0","1","8","-","0","1","-","0","1">>
D_2017 == <<"2","0","1","7","-","1","2","-","3","1">>
D_2025 == <<"2","0","2","5","-","1","2","-","3","1">>
D_2026 == <<"2","0","2","6","-","0","1","-","0","1">>
D_bad == <<"a","b","c","d","-","0","1">>

T_Ab == <<" ","A","b"," ">>
T_LongB == Pad(TitleLimit, "a") \o <<"b">>
T_LongC == Pad(TitleLimit, "a") \o <<"c">>
T_Cd == <<"C","d">>

PersonName(pid) ==
    CASE pid = 1 -> <<"A","n","n"," ","L","e","e">>
      [] pid = 2 -> <<"B","o">>
      [] pid = 3 -> <<"C","y"," ","D","o","w">>
      [] pid = 4 -> <<"E","d"," ","F","o","x">>
      [] pid = 5 -> Pad(NameLimit, "k") \o <<"x"," ","K","i","m">>
      [] pid = 6 -> Pad(NameLimit, "k") \o <<"y"," ","K","i","m">>
      [] pid = 7 -> <<"A","n","n"," "," ","L","e","e">>
      [] pid = 8 -> Pad(NameLimit - 1, "m") \o <<" ","x"," ","K","i","m">>
      [] pid = 9 -> Pad(NameLimit - 1, "m") \o <<" ","K","i","m">>
      [] pid = 10 -> <<" ">>
      [] OTHER -> None

PersonOriginalName(pid) == IF pid = 11 THEN <<"D","e","e">> ELSE None

PersonGender(pid) ==
    CASE pid \in {1, 5, 8} -> 1
      [] pid \in {3, 7, 9} -> 2
      [] pid = 6 -> 3
      [] OTHER -> 0

\* One entry of credits.cast or credits.crew.
Entry(pid, job, dept) ==
    [id |-> pid, name |-> PersonName(pid), original_name |-> PersonOriginalName(pid),
     gender |-> PersonGender(pid), job |-> job, known_for_department |-> dept]

Actor(pid) == Entry(pid, "", "Acting")

\* tmdb_person_detail(pid): the fields main() reads.
PersonDetail(pid) ==
    CASE pid = 1 -> [birthday |-> <<"1","9","8","0","-","0","5","-","0","5">>, deathday |-> None]
      [] pid = 3 -> [birthday |-> <<"1","9","5","0">>, deathday |-> D_2021]
      [] pid = 7 -> [birthday |-> <<"1","9","9","0">>, deathday |-> None]
      [] pid = 9 -> [birthday |-> <<"1","9","7","0">>, deathday |-> D_2018]
      [] OTHER -> [birthday |-> None, deathday |-> None]

Revs == {1, 2}

\* tmdb_movie_detail_with_append(tmdb_id), as the source answers it at revision
\* rev: revision 2 is the updated response, with one more alternate title.
Detail(tmdb_id, rev) ==
    CASE tmdb_id = 1 ->
           [release_date |-> D_2021, production_countries |-> << <<"U","S">>, <<"F","R">> >>,
            original_language |-> <<"e","n">>, title |-> T_Ab, original_title |-> T_Ab,
            runtime |-> {100},
            alternative_titles |-> IF rev = 1 THEN << <<"A","b","X">> >>
                                   ELSE << <<"A","b","X">>, <<"A","b","Y">> >>,
            cast |-> <<Actor(1), Entry(2, "", "Directing")>>,
            crew |-> <<Entry(4, "Producer", "Production"), Entry(3, "Director", "Directing")>>]
      [] tmdb_id = 2 ->
           [release_date |-> D_2018, production_countries |-> << <<"F","R">> >>,
            original_language |-> <<"f","r">>, title |-> T_LongB, original_title |-> T_LongB,
            runtime |-> {90},
            alternative_titles |-> IF rev = 1 THEN <<>> ELSE << <<"L">> >>,
            cast |-> <<Actor(5), Entry(6, "", "Directing"), Actor(7)>>,
            crew |-> <<>>]
      [] tmdb_id = 3 ->
           [release_date |-> D_2018, production_countries |-> << <<"F","R">> >>,
            original_language |-> <<"f","r">>, title |-> None, original_title |-> T_LongC,
            runtime |-> NoInt,
            alternative_titles |-> << None, <<"L">>, <<" ","L">> >>,
            cast |-> <<Actor(8), Actor(9), Actor(10), Actor(11), Actor(1),
                       Entry(2, "Director", "Acting")>>,
            crew |-> <<Entry(4, "Producer", "Production")>>]
      [] tmdb_id = 4 ->
           [release_date |-> IF rev = 1 THEN D_2017 ELSE D_bad, production_countries |-> <<>>,
            original_language |-> <<"D","E">>, title |-> T_Cd, original_title |-> T_Cd,
            runtime |-> {80},
            alternative_titles |-> <<>>,
            cast |-> <<Actor(1)>>,
            crew |-> <<>>]
      [] OTHER ->
           [release_date |-> IF rev = 1 THEN D_2025 ELSE D_2026,
            production_countries |-> IF rev = 1 THEN << <<"Z","Z">>, <<"U","S">> >>
                                     ELSE << <<"U","S">> >>,
            original_language |-> None, title |-> T_Cd, original_title |-> None,
            runtime |-> {80},
            alternative_titles |-> <<>>,
            cast |-> <<Actor(1)>>,
            crew |-> <<>>]

\* The rows of the countries table: SQL leaves country_code as it is stored,
\* here upper case and blank-padded.
CountryRows == { <<"U","S"," ">>, <<"f","r">>, <<"D","E">> }

\* PAGE_LIMIT_PER_YEAR: Optional[int] = None
PAGE_LIMIT_PER_YEAR == NoInt

\* The source's answer to a discover request is laid out over these
\* <<year, slice, page>> places; every other page of the walk is empty.
Slots == << <<START_YEAR, 1, 2>>, <<END_YEAR, 4, 1>> >>

\* A source: the candidates it lists, each a tmdb id at one of the Slots, in
\* the order of the walk. A page is sorted by popularity (sort_by, line 98),
\* which the catalogue has fall with the tmdb id.
RECURSIVE SeqsUpTo(_, _)
SeqsUpTo(S, n) ==
    IF n = 0 THEN {<<>>}
    ELSE LET shorter == SeqsUpTo(S, n - 1)
         IN  shorter \cup {Append(q, x) : q \in {r \in shorter : Len(r) = n - 1}, x \in S}

Sources ==
    {q \in SeqsUpTo(TmdbIds \X (1..Len(Slots)), MaxCands) :
        \A i \in 1..(Len(q) - 1) :
            \/ q[i][2] < q[i + 1][2]
            \/ q[i][2] = q[i + 1][2] /\ q[i][1] < q[i + 1][1]}

RECURSIVE IdsAt(_, _)
IdsAt(src, slot) ==
    IF src = <<>> THEN <<>>
    ELSE IF src[1][2] = slot THEN <<src[1][1]>> \o IdsAt(Tail(src), slot)
    ELSE IdsAt(Tail(src), slot)

\* The JSON of one discover page: results (each item's id) and total_pages.
\* A slice has a second page exactly when the source lists a candidate there.
DiscoverPage(src, y, sl, pg) ==
    LET at == {i \in 1..Len(Slots) : Slots[i] = <<y, sl, pg>>}
        more == {i \in 1..Len(Slots) :
                    /\ Slots[i][1] = y /\ Slots[i][2] = sl /\ Slots[i][3] > 1
                    /\ IdsAt(src, i) # <<>>}
    IN  [results |-> IF at = {} THEN <<>> ELSE IdsAt(src, CHOOSE i \in at : TRUE),
         total_pages |-> IF more = {} THEN 1
                         ELSE Slots[CHOOSE i \in more : \A j \in more : Slots[j][3] <= Slots[i][3]][3]]

\* -------------------------------------------------------------------- state
VARIABLES
    source,                \* the source's data, the same in every run
    run,                   \* the number of this execution of the program
    rev,                   \* the revision of the source's answers during this run
    pc,                    \* where main() is
    status,                \* the exit status of the process, {} while it runs
    conn,                  \* "none", "open" or "closed"
    db,                    \* the committed tables
    tx,                    \* the tables as the open transaction sees them
    seqs,                  \* the sequences' next values (not transactional)
    movies_key, people_key, countries, person_cache,
    year, slice, page, total_pages, results,
    cnt,                   \* seen, inserted, skipped_country, skipped_year, new_*
    skip_country_counter,
    hist                   \* what the properties need to remember of the run

vars == <<source, run, rev, pc, status, conn, db, tx, seqs, movies_key, people_key,
          countries, person_cache, year, slice, page, total_pages, results, cnt,
          skip_country_counter, hist>>

walkVars == <<year, slice, page, total_pages, results>>
memVars == <<movies_key, people_key, countries, person_cache, cnt, skip_country_counter>>

EmptyTables == [movies |-> {}, people |-> {}, alt_titles |-> {}, credits |-> <<>>]

EmptyMap == [k \in {} |-> 0]

ZeroYear(c) == [c EXCEPT !.seen = 0, !.inserted = 0, !.skipped_country = 0, !.skipped_year = 0]

ZeroCnt == [seen |-> 0, inserted |-> 0, skipped_country |-> 0, skipped_year |-> 0,
            new_movies |-> 0, new_people |-> 0, new_credits |-> 0]

\* dbAtStart: the committed tables when the run began; commits: who committed,
\* in order; inserts: the insert calls that returned; asked: the calls of
\* get_person; fetches: the person ids requested from the source, in order;
\* upserts: the person keys upsert_people was
\* called with; visited: the <<year, slice>> pairs the process has walked;
\* last: the step taken last; prev: the committed runs before this one.
NewHist(d, before) ==
    [dbAtStart |-> d, commits |-> <<>>, inserts |-> 0, asked |-> 0, fetches |-> <<>>,
     upserts |-> <<>>,
     visited |-> {}, last |-> [kind |-> "none"], prev |-> before]

Init ==
    /\ source \in Sources
    /\ run = 1
    /\ rev = 1
    /\ pc = "init"
    /\ status = NoInt
    /\ conn = "none"
    /\ db = EmptyTables
    /\ tx = EmptyTables
    /\ seqs = [movies |-> 1, people |-> 1]
    /\ movies_key = EmptyMap
    /\ people_key = EmptyMap
    /\ countries = {}
    /\ person_cache = {}
    /\ year = START_YEAR
    /\ slice = 1
    /\ page = 1
    /\ total_pages = 1
    /\ results = <<>>
    /\ cnt = ZeroCnt
    /\ skip_country_counter = EmptyMap
    /\ hist = NewHist(EmptyTables, <<>>)

\* ---------------------------------------------------------- the store calls
\* return r[0] if r else None: no identity.
NoId == 0

MaxOf(S) == IF S = {} THEN 0 ELSE CHOOSE x \in S : \A y \in S : y <= x

Range(q) == {q[i] : i \in 1..Len(q)}

\* insert_movie: INSERT ... RETURNING movieid; the title is cut to 100.
insert_movie(t, sq, movie) ==
    LET row == [movieid |-> sq.movies,
                title |-> trim(movie.title, TitleLimit),
                country |-> movie.country,
                year_released |-> movie.year_released,
                runtime |-> movie.runtime]
    IN  [t |-> [t EXCEPT !.movies = @ \cup {row}],
         sq |-> [sq EXCEPT !.movies = @ + 1],
         id |-> sq.movies]

\* upsert_people as a plain INSERT, on a table without the unique key.
upsert_people_plain(t, sq, person) ==
    [t |-> [t EXCEPT !.people = @ \cup
                {[peopleid |-> sq.people,
                  first_name |-> trim(person.first_name, NameLimit),
                  surname |-> trim(person.surname, NameLimit),
                  born |-> person.born, died |-> person.died, gender |-> person.gender]}],
     sq |-> [sq EXCEPT !.people = @ + 1],
     id |-> sq.people]

\* upsert_people with DO UPDATE SET born, died and gender.
upsert_people_overwrite(t, sq, person) ==
    LET fn == trim(person.first_name, NameLimit)
        sn == trim(person.surname, NameLimit)
        hit == {r \in t.people : r.surname = sn /\ r.first_name = fn}
        row == [peopleid |-> sq.people, first_name |-> fn, surname |-> sn,
                born |-> person.born, died |-> person.died, gender |-> person.gender]
    IN  [t |-> [t EXCEPT !.people =
                    IF hit = {} THEN @ \cup {row}
                    ELSE {IF r \in hit THEN [row EXCEPT !.peopleid = r.peopleid] ELSE r :
                             r \in @}],
         sq |-> [sq EXCEPT !.people = @ + 1],
         id |-> IF hit = {} THEN row.peopleid ELSE CHOOSE i \in {r.peopleid : r \in hit} : TRUE]

\* upsert_people: INSERT ... ON CONFLICT (surname, first_name) DO UPDATE SET
\* gender RETURNING peopleid.  The default nextval() is taken before the
\* conflict is seen, so the sequence moves on either path.  RETURNING gives a
\* row on both paths, so the SELECT of lines 201-206 answers only if it did not.
upsert_people(t, sq, person) ==
    LET fn == trim(person.first_name, NameLimit)
        sn == trim(person.surname, NameLimit)
        hit == {r \in t.people : r.surname = sn /\ r.first_name = fn}
        row == [peopleid |-> sq.people, first_name |-> fn, surname |-> sn,
                born |-> person.born, died |-> person.died, gender |-> person.gender]
        after == IF hit = {} THEN t.people \cup {row}
                 ELSE {IF r \in hit THEN [r EXCEPT !.gender = person.gender] ELSE r :
                          r \in t.people}
        returned == IF hit = {} THEN {row.peopleid} ELSE {r.peopleid : r \in hit}
        found == {r.peopleid : r \in {x \in after : x.surname = sn /\ x.first_name = fn}}
    IN  [t |-> [t EXCEPT !.people = after],
         sq |-> [sq EXCEPT !.people = @ + 1],
         id |-> IF returned # {} THEN CHOOSE i \in returned : TRUE
                ELSE IF found # {} THEN CHOOSE i \in found : TRUE
                ELSE NoId]

\* upsert_alt_titles: the set of the titles cut to 250, without the empty and
\* the absent ones; ON CONFLICT (movieid, title) DO NOTHING.  The titleid
\* column, which nothing reads, is left out of the rows.
upsert_alt_titles(t, movieid, titles) ==
    LET dedup == {trim(x, AltTitleLimit) : x \in {y \in Range(titles) : y # None /\ y # <<>>}}
    IN  [t EXCEPT !.alt_titles = @ \cup {[movieid |-> movieid, title |-> x] : x \in dedup}]

\* upsert_credits as a plain INSERT of the batch.
upsert_credits_plain(t, rows) == [t EXCEPT !.credits = @ \o rows]

\* upsert_credits: ON CONFLICT (movieid, peopleid, credited_as) DO NOTHING,
\* row by row in the order of the batch.
RECURSIVE upsert_credits(_, _)
upsert_credits(t, rows) ==
    IF rows = <<>> THEN t
    ELSE upsert_credits(
             IF Head(rows) \in Range(t.credits) THEN t
             ELSE [t EXCEPT !.credits = Append(@, Head(rows))],
             Tail(rows))

\* fetch_existing, movies: (LOWER(title), year_released, country) of a row.
StoredMovieKey(r) == <<Lower(r.title), r.year_released, r.country>>

\* fetch_existing, people: (first_name or "", surname) of a row.
StoredPersonKey(r) == <<OrEmpty(r.first_name), r.surname>>

\* The dicts fetch_existing can build: a key that several rows have keeps the
\* identity of the row fetched last, and SQL fixes no order.
RECURSIVE Choices(_)
Choices(f) ==
    IF DOMAIN f = {} THEN {EmptyMap}
    ELSE LET k == CHOOSE x \in DOMAIN f : TRUE
             rest == Choices([x \in DOMAIN f \ {k} |-> f[x]])
         IN  {(k :> i) @@ m : i \in f[k], m \in rest}

MovieKeyMaps(rows) ==
    Choices([k \in {StoredMovieKey(r) : r \in rows} |->
                {r.movieid : r \in {x \in rows : StoredMovieKey(x) = k}}])

PersonKeyMaps(rows) ==
    Choices([k \in {StoredPersonKey(r) : r \in rows} |->
                {r.peopleid : r \in {x \in rows : StoredPersonKey(x) = k}}])

InWindowRow(r) == START_YEAR <= r.year_released /\ r.year_released <= END_YEAR

\* countries.add(cc.strip().lower())
LoadedCountries == {Lower(Strip(cc)) : cc \in CountryRows}

\* ------------------------------------------------- the body of the item loop
\* The year test without its upper end.
YearRejected_no_upper(release_year) ==
    \/ release_year = NoInt
    \/ \E y \in release_year : y = 0 \/ y < START_YEAR

\* if not release_year or release_year < START_YEAR or release_year > END_YEAR
YearRejected(release_year) ==
    \/ release_year = NoInt
    \/ \E y \in release_year : y = 0 \/ y < START_YEAR \/ y > END_YEAR

\* The directors as the crew's and the cast's together.
Directors_both(detail) ==
    SelectSeq(detail.crew, LAMBDA c : c.job = "Director")
        \o SelectSeq(detail.cast,
                     LAMBDA c : c.job = "Director" \/ c.known_for_department = "Directing")

\* The directors with the fallback taken from the first ACTOR_LIMIT cast
\* entries only.
Directors_top_cast(detail) ==
    LET crewDirectors == SelectSeq(detail.crew, LAMBDA c : c.job = "Director")
    IN  IF crewDirectors # <<>> THEN crewDirectors
        ELSE SelectSeq(SubSeq(detail.cast, 1, Min(Len(detail.cast), ACTOR_LIMIT)),
                       LAMBDA c : c.job = "Director" \/ c.known_for_department = "Directing")

\* The director entries: the crew with job Director, and the cast entries
\* with job Director or department Directing when the crew has none.
Directors(detail) ==
    LET crewDirectors == SelectSeq(detail.crew, LAMBDA c : c.job = "Director")
    IN  IF crewDirectors # <<>> THEN crewDirectors
        ELSE SelectSeq(detail.cast,
                       LAMBDA c : c.job = "Director" \/ c.known_for_department = "Directing")

\* The person of one entry is known to people_key: its identity is reused.
Reused(p_key, movieid, credited_as, st) ==
    [st EXCEPT !.credit_rows = Append(@, <<movieid, st.people_key[p_key], credited_as>>)]

\* upsert_people's answer taken as None whatever it is.
Upserted_unanswered(p_key, up, movieid, credited_as, st) ==
    [st EXCEPT !.t = up.t,
               !.sq = up.sq,
               !.people_key = (p_key :> NoId) @@ @,
               !.cnt.new_people = @ + 1,
               !.inserts = @ + 1,
               !.upserts = Append(@, p_key),
               !.credit_rows = Append(@, <<movieid, NoId, credited_as>>)]

\* It is not: upsert_people is called, and its answer is recorded.
Upserted(p_key, up, movieid, credited_as, st) ==
    [st EXCEPT !.t = up.t,
               !.sq = up.sq,
               !.people_key = (p_key :> up.id) @@ @,
               !.cnt.new_people = @ + 1,
               !.inserts = @ + 1,
               !.upserts = Append(@, p_key),
               !.credit_rows = Append(@, <<movieid, up.id, credited_as>>)]

\* get_person without the cache: every call requests the person detail.
get_person_uncached(pid, st) ==
    [st EXCEPT !.asked = @ + 1,
               !.fetches = Append(@, pid)]

\* get_person, lines 315-320: the person detail, requested unless cached.
get_person(pid, st) ==
    [st EXCEPT !.person_cache = @ \cup {pid},
               !.asked = @ + 1,
               !.fetches = IF pid \in st.person_cache THEN @ ELSE Append(@, pid)]

\* The entry's person written whether people_key has the key or not.
Credit_always_upsert(e, fn, sn, p_detail, movieid, credited_as, st) ==
    LET born == year_or_none(p_detail.birthday)
    IN  Upserted(<<OrEmpty(fn), sn>>,
                 upsert_people(st.t, st.sq,
                     [first_name |-> fn, surname |-> sn,
                      born |-> IF born # NoInt THEN CHOOSE y \in born : TRUE
                               ELSE UnknownBorn,
                      died |-> year_or_none(p_detail.deathday),
                      gender |-> gender_map(e.gender)]),
                 movieid, credited_as, st)

\* Lines 335-355 and 378-398, for an entry with the usable name (fn, sn).
Credit(e, fn, sn, p_detail, movieid, credited_as, st) ==
    LET p_key == <<OrEmpty(fn), sn>>
        born == year_or_none(p_detail.birthday)
    IN  IF p_key \in DOMAIN st.people_key
        THEN Reused(p_key, movieid, credited_as, st)
        ELSE Upserted(p_key,
                      upsert_people(st.t, st.sq,
                          [first_name |-> fn, surname |-> sn,
                           born |-> IF born # NoInt THEN CHOOSE y \in born : TRUE
                                    ELSE UnknownBorn,
                           died |-> year_or_none(p_detail.deathday),
                           gender |-> gender_map(e.gender)]),
                      movieid, credited_as, st)

\* The names of an entry, cut: <<first name, surname>>, lines 325-331.
EntryNames(e) ==
    LET names == split_name(OrStr(OrStr(e.name, e.original_name), <<>>))
    IN  <<trim(names[1], NameLimit), trim(names[2], NameLimit)>>

\* One entry of the cast loop or of the director loop.
PersonStep(e, names, movieid, credited_as, st) ==
    IF names[1] = <<>> /\ names[2] = <<>> THEN st
    ELSE Credit(e, names[1], names[2], PersonDetail(e.id), movieid, credited_as,
                get_person(e.id, st))

\* One pass of the cast loop or of the director loop over entries, for the
\* movie movieid, with the role credited_as.  st carries the tables, the
\* sequences, people_key, person_cache, credit_rows and the counters.
RECURSIVE PeopleLoop(_, _, _, _)
PeopleLoop(entries, movieid, credited_as, st) ==
    IF entries = <<>> THEN st
    ELSE PeopleLoop(Tail(entries), movieid, credited_as,
                    PersonStep(Head(entries), EntryNames(Head(entries)), movieid,
                               credited_as, st))

FaultPoints == {"none", "detail", "insert_movie", "alt_titles", "directors", "credits"}

\* What lines 275-289 compute from the detail record.
Resolve(detail, countrySet) ==
    [release_year |-> year_or_none(detail.release_date),
     main_country |-> derive_country(detail, countrySet),
     lang |-> Lower(OrStr(detail.original_language, <<"u","n","k","n","o","w","n">>)),
     title |-> OrStr(OrStr(detail.title, detail.original_title), <<>>)]

\* key = (norm_title(title), release_year, main_country)
MovieKey(title, release_year, main_country) ==
    <<norm_title(title), release_year, main_country>>

TheYear(release_year) == IF release_year = NoInt THEN 0 ELSE CHOOSE y \in release_year : TRUE

\* The state a pass leaves, with what the pass did for the properties to read.
Out(s, outcome, raised) == [s EXCEPT !.raised = raised, !.last.outcome = outcome]

\* Lines 400-401.
WriteCredits(s) ==
    [s EXCEPT !.t = upsert_credits(s.t, s.credit_rows),
              !.inserts = IF s.credit_rows = <<>> THEN @ ELSE @ + 1,
              !.cnt.new_credits = @ + Len(s.credit_rows)]

\* Lines 357-401: the director loop and the credits.
DirectorsAndCredits(detail, fault, movieid, s) ==
    IF fault = "directors" THEN Out(s, "fault", TRUE)
    ELSE IF fault = "credits"
         THEN Out(PeopleLoop(Directors(detail), movieid, "D", s), "fault", TRUE)
    ELSE Out(WriteCredits(PeopleLoop(Directors(detail), movieid, "D", s)), "inserted", FALSE)

\* Lines 307-355: the alternate titles and the cast loop.
AltTitlesAndCast(detail, fault, movieid, alt_list, s) ==
    IF fault = "alt_titles" THEN Out(s, "fault", TRUE)
    ELSE DirectorsAndCredits(detail, fault, movieid,
             PeopleLoop(SubSeq(detail.cast, 1, Min(Len(detail.cast), ACTOR_LIMIT)),
                        movieid, "A",
                        [s EXCEPT !.t = upsert_alt_titles(s.t, movieid, alt_list),
                                  !.inserts = IF \A x \in Range(alt_list) : x = None \/ x = <<>>
                                              THEN @ ELSE @ + 1,
                                  !.credit_rows = <<>>]))

\* Lines 293-305: the movie row and its key.
Inserted(detail, fault, key, ins, alt_list, s) ==
    AltTitlesAndCast(detail, fault, ins.id, alt_list,
        [s EXCEPT !.t = ins.t,
                  !.sq = ins.sq,
                  !.movies_key = (key :> ins.id) @@ @,
                  !.cnt.inserted = @ + 1,
                  !.cnt.new_movies = @ + 1,
                  !.inserts = @ + 1,
                  !.last.movieid = ins.id])

\* The checks with the country looked at before the year.
Checks_country_first(detail, fault, v, key, s) ==
    IF v.main_country = <<>>
    THEN Out([s EXCEPT !.cnt.skipped_country = @ + 1,
                       !.skip_country_counter =
                           (v.lang :> (IF v.lang \in DOMAIN @ THEN @[v.lang] ELSE 0) + 1) @@ @],
             "country", FALSE)
    ELSE IF YearRejected(v.release_year)
    THEN Out([s EXCEPT !.cnt.skipped_year = @ + 1], "year", FALSE)
    ELSE IF key \in DOMAIN s.movies_key THEN Out(s, "known", FALSE)
    ELSE IF fault = "insert_movie" THEN Out(s, "fault", TRUE)
    ELSE Inserted(detail, fault, key,
                  insert_movie(s.t, s.sq,
                      [title |-> v.title, country |-> v.main_country,
                       year_released |-> TheYear(v.release_year), runtime |-> detail.runtime]),
                  detail.alternative_titles \o <<v.title, detail.original_title>>,
                  s)

\* Lines 276-305: the three checks, in the code's order, and the insert.
Checks(detail, fault, v, key, s) ==
    IF YearRejected(v.release_year)
    THEN Out([s EXCEPT !.cnt.skipped_year = @ + 1], "year", FALSE)
    ELSE IF v.main_country = <<>>
    THEN Out([s EXCEPT !.cnt.skipped_country = @ + 1,
                       !.skip_country_counter =
                           (v.lang :> (IF v.lang \in DOMAIN @ THEN @[v.lang] ELSE 0) + 1) @@ @],
             "country", FALSE)
    ELSE IF key \in DOMAIN s.movies_key THEN Out(s, "known", FALSE)
    ELSE IF fault = "insert_movie" THEN Out(s, "fault", TRUE)
    ELSE Inserted(detail, fault, key,
                  insert_movie(s.t, s.sq,
                      [title |-> v.title, country |-> v.main_country,
                       year_released |-> TheYear(v.release_year), runtime |-> detail.runtime]),
                  detail.alternative_titles \o <<v.title, detail.original_title>>,
                  s)

\* The pass for a detail record that arrived.
Arrived(detail, tmdb_id, fault, loopYear, v, s) ==
    Checks(detail, fault, v, MovieKey(v.title, TheYear(v.release_year), v.main_country),
           [s EXCEPT !.last = [kind |-> "item", tmdb_id |-> tmdb_id, loopYear |-> loopYear,
                               fault |-> fault, outcome |-> "", movieid |-> NoId,
                               title |-> v.title, release_year |-> v.release_year,
                               main_country |-> v.main_country, lang |-> v.lang,
                               key |-> MovieKey(v.title, TheYear(v.release_year),
                                                v.main_country)]])

\* The body of "for item in results" for the item tmdb_id, lines 267-401.
\* fault names the call that raises, "none" if none does; the result is the
\* state the body leaves, and raised tells whether the fault was reached.
Reconcile(tmdb_id, fault, revision, loopYear, s0) ==
    IF fault = "detail"
    THEN [s0 EXCEPT !.cnt.seen = @ + 1, !.raised = TRUE,
                    !.last = [kind |-> "item", tmdb_id |-> tmdb_id, loopYear |-> loopYear,
                              fault |-> fault, outcome |-> "fault"]]
    ELSE Arrived(Detail(tmdb_id, revision), tmdb_id, fault, loopYear,
                 Resolve(Detail(tmdb_id, revision), s0.countries),
                 [s0 EXCEPT !.cnt.seen = @ + 1])

\* ------------------------------------------------------------------ actions
\* The state the item loop reads and writes, as one record.
Carried ==
    [t |-> tx, sq |-> seqs, movies_key |-> movies_key, people_key |-> people_key,
     countries |-> countries, person_cache |-> person_cache, cnt |-> cnt,
     skip_country_counter |-> skip_country_counter, inserts |-> hist.inserts,
     asked |-> hist.asked, fetches |-> hist.fetches, upserts |-> hist.upserts, credit_rows |-> <<>>,
     raised |-> FALSE, last |-> hist.last]

Step(kind) == [kind |-> kind]

\* The process is gone, and with it what it held in memory.
Exited ==
    /\ pc' = "exited"
    /\ movies_key' = EmptyMap
    /\ people_key' = EmptyMap
    /\ countries' = {}
    /\ person_cache' = {}
    /\ cnt' = ZeroCnt
    /\ skip_country_counter' = EmptyMap
    /\ year' = START_YEAR
    /\ slice' = 1
    /\ page' = 1
    /\ total_pages' = 1
    /\ results' = <<>>

\* main, lines 239-242: a missing token or DSN ends the process in fatal().
Fatal ==
    /\ pc = "init"
    /\ Exited
    /\ status' = {1}
    /\ hist' = [NewHist(db, hist.prev) EXCEPT !.last = Step("fatal")]
    /\ UNCHANGED <<source, run, rev, conn, db, tx, seqs>>

\* main, lines 244-247: connect, autocommit off.
Connect ==
    /\ pc = "init"
    /\ pc' = "connected"
    /\ conn' = "open"
    /\ tx' = db
    /\ hist' = [NewHist(db, hist.prev) EXCEPT !.last = Step("connect")]
    /\ UNCHANGED <<source, run, rev, status, db, seqs, walkVars, memVars>>

\* What the connection's commit makes of the committed tables.
commit(d, t) == t

\* A rollback that keeps what the transaction wrote.
rollback_keeps(d, t) == t

\* What the connection's rollback, or the end of the session, makes of them.
rollback(d, t) == d

\* ensure_sequences: every sequence restarts after the largest identity, and
\* the connection is committed (line 57).
ensure_sequences ==
    /\ pc = "connected"
    /\ pc' = "sequenced"
    /\ seqs' = [movies |-> MaxOf({r.movieid : r \in tx.movies}) + 1,
                people |-> MaxOf({r.peopleid : r \in tx.people}) + 1]
    /\ db' = commit(db, tx)
    /\ hist' = [hist EXCEPT !.commits = Append(@, "ensure_sequences"),
                            !.last = Step("ensure_sequences")]
    /\ UNCHANGED <<source, run, rev, status, conn, tx, walkVars, memVars>>

\* An exception in ensure_sequences or fetch_existing, lines 249-250: they
\* run before the try, so the process dies with the traceback and the server
\* drops the open transaction.
Crash ==
    /\ pc \in {"connected", "sequenced"}
    /\ Exited
    /\ status' = {1}
    /\ conn' = "closed"
    /\ db' = rollback(db, tx)
    /\ tx' = db'
    /\ hist' = [hist EXCEPT !.visited = {}, !.last = Step("crash")]
    /\ UNCHANGED <<source, run, rev, seqs>>

\* fetch_existing, then lines 253-260: the Key Index, the counters, the first year.
fetch_existing ==
    /\ pc = "sequenced"
    /\ pc' = "walk"
    /\ movies_key' \in MovieKeyMaps({r \in tx.movies : InWindowRow(r)})
    /\ people_key' \in PersonKeyMaps(tx.people)
    /\ countries' = LoadedCountries
    /\ person_cache' = {}
    /\ cnt' = ZeroCnt
    /\ skip_country_counter' = EmptyMap
    /\ year' = START_YEAR
    /\ slice' = 1
    /\ page' = 1
    /\ total_pages' = 1
    /\ results' = <<>>
    /\ hist' = [hist EXCEPT !.last = Step("fetch_existing")]
    /\ UNCHANGED <<source, run, rev, status, conn, db, tx, seqs>>

\* tmdb_discover's loop test, lines 89-91.
HasPage(pg, tp) ==
    /\ pg <= tp
    /\ ~(PAGE_LIMIT_PER_YEAR # NoInt /\ \E l \in PAGE_LIMIT_PER_YEAR : pg > l)

\* tmdb_discover, lines 92-106: request the page and yield it.
Discover ==
    /\ pc = "walk"
    /\ LET data == DiscoverPage(source, year, slice, page)
       IN  /\ total_pages' = Min(data.total_pages, PageCeiling)
           /\ results' = data.results
    /\ pc' = "items"
    /\ hist' = [hist EXCEPT !.last = Step("discover")]
    /\ UNCHANGED <<source, run, rev, status, conn, db, tx, seqs, year, slice, page, memVars>>

\* tmdb_get raises in tmdb_discover.
DiscoverFault ==
    /\ pc = "walk"
    /\ pc' = "except"
    /\ hist' = [hist EXCEPT !.last = Step("discover_fault")]
    /\ UNCHANGED <<source, run, rev, status, conn, db, tx, seqs, walkVars, memVars>>

\* One pass of "for item in results", with or without a call that raises.
Item ==
    /\ pc = "items"
    /\ results # <<>>
    /\ \E fault \in FaultPoints :
         LET r == Reconcile(Head(results), fault, rev, year, Carried)
         IN  /\ fault = "none" \/ r.raised
             /\ tx' = r.t
             /\ seqs' = r.sq
             /\ movies_key' = r.movies_key
             /\ people_key' = r.people_key
             /\ person_cache' = r.person_cache
             /\ cnt' = r.cnt
             /\ skip_country_counter' = r.skip_country_counter
             /\ hist' = [hist EXCEPT !.inserts = r.inserts, !.asked = r.asked,
                                     !.fetches = r.fetches,
                                     !.upserts = r.upserts, !.last = r.last]
             /\ pc' = IF r.raised THEN "except" ELSE "items"
    /\ results' = Tail(results)
    /\ UNCHANGED <<source, run, rev, status, conn, db, countries, year, slice, page, total_pages>>

\* The generator resumes after the page's last item: page += 1, and the
\* slice has another page.
NextPage ==
    /\ pc = "items"
    /\ results = <<>>
    /\ HasPage(page + 1, total_pages)
    /\ page' = page + 1
    /\ pc' = "walk"
    /\ hist' = [hist EXCEPT !.last = Step("next_page")]
    /\ UNCHANGED <<source, run, rev, status, conn, db, tx, seqs, year, slice, total_pages,
                   results, memVars>>

\* The slice has no more pages, and the year has another slice.
NextSlice ==
    /\ pc = "items"
    /\ results = <<>>
    /\ ~HasPage(page + 1, total_pages)
    /\ slice < Len(RANGES)
    /\ slice' = slice + 1
    /\ page' = 1
    /\ total_pages' = 1
    /\ pc' = "walk"
    /\ hist' = [hist EXCEPT !.visited = @ \cup {<<year, slice>>}, !.last = Step("next_slice")]
    /\ UNCHANGED <<source, run, rev, status, conn, db, tx, seqs, year, results, memVars>>

\* range(START_YEAR, END_YEAR): the year loop one year short.
LastYear_short(y) == y = END_YEAR - 1

\* The walk of the year is done (lines 403-406); whether the year loop has ended.
LastYear(y) == y = END_YEAR

NextYear ==
    /\ pc = "items"
    /\ results = <<>>
    /\ ~HasPage(page + 1, total_pages)
    /\ slice = Len(RANGES)
    /\ ~LastYear(year)
    /\ year' = year + 1
    /\ slice' = 1
    /\ page' = 1
    /\ total_pages' = 1
    /\ cnt' = ZeroYear(cnt)
    /\ pc' = "walk"
    /\ hist' = [hist EXCEPT !.visited = @ \cup {<<year, slice>>}, !.last = Step("next_year")]
    /\ UNCHANGED <<source, run, rev, status, conn, db, tx, seqs, results, movies_key,
                   people_key, countries, person_cache, skip_country_counter>>

\* The last year is done and main commits, line 408.
Commit ==
    /\ pc = "items"
    /\ results = <<>>
    /\ ~HasPage(page + 1, total_pages)
    /\ slice = Len(RANGES)
    /\ LastYear(year)
    /\ db' = commit(db, tx)
    /\ pc' = "report"
    /\ hist' = [hist EXCEPT !.visited = @ \cup {<<year, slice>>},
                            !.commits = Append(@, "main"), !.last = Step("commit")]
    /\ UNCHANGED <<source, run, rev, status, conn, tx, seqs, walkVars, memVars>>

\* conn.commit() raises.
CommitFault ==
    /\ pc = "items"
    /\ results = <<>>
    /\ ~HasPage(page + 1, total_pages)
    /\ slice = Len(RANGES)
    /\ LastYear(year)
    /\ pc' = "except"
    /\ hist' = [hist EXCEPT !.visited = @ \cup {<<year, slice>>}, !.last = Step("commit_fault")]
    /\ UNCHANGED <<source, run, rev, status, conn, db, tx, seqs, walkVars, memVars>>

\* Lines 409-413 and the finally: the totals are logged, the connection is
\* closed, and the process ends with status 0.
Report ==
    /\ pc = "report"
    /\ Exited
    /\ status' = {0}
    /\ conn' = "closed"
    /\ hist' = [hist EXCEPT !.visited = {}, !.last = Step("report")]
    /\ UNCHANGED <<source, run, rev, db, tx, seqs>>

\* The logging after the commit raises.
ReportFault ==
    /\ pc = "report"
    /\ pc' = "except"
    /\ hist' = [hist EXCEPT !.last = Step("report_fault")]
    /\ UNCHANGED <<source, run, rev, status, conn, db, tx, seqs, walkVars, memVars>>

\* except Exception, lines 414-419: rollback, sys.exit(1), close.
Except ==
    /\ pc = "except"
    /\ Exited
    /\ db' = rollback(db, tx)
    /\ tx' = db'
    /\ status' = {1}
    /\ conn' = "closed"
    /\ hist' = [hist EXCEPT !.visited = {}, !.last = Step("except")]
    /\ UNCHANGED <<source, run, rev, seqs>>

\* The program is started again, against the same source at some revision.
NextRun ==
    /\ pc = "exited"
    /\ run < MaxRuns
    /\ run' = run + 1
    /\ rev' \in Revs
    /\ pc' = "init"
    /\ status' = NoInt
    /\ conn' = "none"
    /\ tx' = db
    /\ hist' = NewHist(db, IF "main" \in Range(hist.commits)
                            THEN Append(hist.prev, [rev |-> rev, after |-> db])
                            ELSE hist.prev)
    /\ UNCHANGED <<source, db, seqs, walkVars, memVars>>

Next ==
    \/ Fatal
    \/ Connect
    \/ ensure_sequences
    \/ Crash
    \/ fetch_existing
    \/ Discover
    \/ DiscoverFault
    \/ Item
    \/ NextPage
    \/ NextSlice
    \/ NextYear
    \/ Commit
    \/ CommitFault
    \/ Report
    \/ ReportFault
    \/ Except
    \/ NextRun

Spec == Init /\ [][Next]_vars

\* --------------------------------------------------------------- properties
\* The numbers of rows of the four tables.
Counts(t) ==
    <<Cardinality(t.movies), Cardinality(t.people), Cardinality(t.alt_titles), Len(t.credits)>>

\* The step is a pass of the item loop whose detail record arrived.
ItemStep ==
    /\ pc = "items"
    /\ results # <<>>
    /\ hist'.last.kind = "item"
    /\ hist'.last.fault # "detail"

\* The detail record of the candidate the next pass is for.
Cand == Detail(Head(results), rev)

\* The detail record of the candidate of the pass just made.
LastDetail == Detail(hist.last.tmdb_id, rev)

LastInserted == hist.last.kind = "item" /\ hist.last.outcome = "inserted"

\* The release date is absent, unparsable or outside the window.
BadYear(d) ==
    LET y == year_or_none(d.release_date)
    IN  y = NoInt \/ \E v \in y : v < START_YEAR \/ v > END_YEAR

\* The first production country is missing or not in the loaded set.
BadCountry(d) ==
    \/ d.production_countries = <<>>
    \/ Lower(OrEmpty(d.production_countries[1])) \notin countries

Tally(m, lang) == IF lang \in DOMAIN m THEN m[lang] ELSE 0

\* The person key main() computes for an entry.
EntryKey(e) == <<OrEmpty(EntryNames(e)[1]), EntryNames(e)[2]>>

Usable(e) == EntryNames(e) # << <<>>, <<>> >>

\* The identity people_key has for the person of an entry, NoId if none.
PersonOf(e) == IF EntryKey(e) \in DOMAIN people_key THEN people_key[EntryKey(e)] ELSE NoId

\* C1: starting from empty tables, a second committed run against the same
\* source data leaves as many movies, people, alt_titles and credits rows as
\* the first committed run left, titles of more than 100 characters included.
C1_Idempotent ==
    (/\ pc = "exited" /\ status = {0}
     /\ Len(hist.prev) = 1 /\ hist.prev[1].rev = rev)
        => Counts(db) = Counts(hist.prev[1].after)

\* C2: no two rows of movies have the same (LOWER(title), year_released,
\* country), within a run and over committed runs.
C2_MovieUnique ==
    \A r1 \in tx.movies : \A r2 \in tx.movies :
        StoredMovieKey(r1) = StoredMovieKey(r2) => r1 = r2

\* C3: no two rows of people have the same (surname, first_name) as stored,
\* in the transaction and in the committed table.
C3_PersonUnique ==
    \A t \in {tx, db} : \A r1 \in t.people : \A r2 \in t.people :
        (r1.surname = r2.surname /\ r1.first_name = r2.first_name) => r1 = r2

\* C3's case: two source persons whose names are equal once cut to 30 have
\* been credited, and so have two whose stored names are equal although their
\* keys differ (the conflict path of upsert_people).
C3_Witness ==
    /\ LastInserted
    /\ {8, 9} \subseteq Range(hist.fetches)
    /\ Len(hist.upserts) >= 3
    /\ Cardinality(tx.people) < Len(hist.upserts)

\* C4: the key fetch_existing derives from the row insert_movie wrote is the
\* key main() computed for the candidate, also for a title of more than 100
\* characters.
C4_StoredKeyIsKey ==
    LastInserted =>
        \A r \in tx.movies :
            r.movieid = hist.last.movieid => StoredMovieKey(r) = hist.last.key

\* C5: a run that raised inside the loop, after any number of inserts and
\* before main's commit, ends with the tables as they were when it began.
C5_Atomic ==
    (/\ pc = "exited"
     /\ hist.last.kind = "except"
     /\ "main" \notin Range(hist.commits))
        => db = hist.dbAtStart

\* C5's case: the run raised after three insert calls or more had returned.
C5_Witness ==
    /\ pc = "exited"
    /\ hist.last.kind = "except"
    /\ "main" \notin Range(hist.commits)
    /\ hist.inserts >= 3

\* C6: every movie row has its year in the window, the row a pass wrote has
\* the year parsed from the detail record's release date, and a candidate
\* whose date is absent, unparsable or outside the window is skipped: the
\* year-skip counter goes up by one and nothing is written.
C6_Window ==
    /\ [](\A r \in tx.movies : START_YEAR <= r.year_released /\ r.year_released <= END_YEAR)
    /\ [](LastInserted =>
            \A r \in tx.movies :
                r.movieid = hist.last.movieid
                    => r.year_released \in year_or_none(LastDetail.release_date))
    /\ [][(ItemStep /\ BadYear(Cand)) =>
            /\ cnt'.skipped_year = cnt.skipped_year + 1
            /\ tx' = tx
            /\ pc' = "items"]_vars

\* C6's case: in a year of the walk that wrote a movie whose release year
\* is not that year, a candidate has just been skipped for its year.
C6_Witness ==
    /\ hist.last.kind = "item"
    /\ hist.last.outcome = "year"
    /\ cnt.skipped_year = 1
    /\ cnt.inserted = 1
    /\ \E r \in tx.movies : r.year_released # hist.last.loopYear

\* C7 as stated: every candidate whose first production country is missing
\* or unknown is not inserted, raises the country-skip counter and tallies
\* its language.
C7_Original ==
    [][(ItemStep /\ BadCountry(Cand)) =>
        /\ tx' = tx
        /\ cnt'.skipped_country = cnt.skipped_country + 1
        /\ Tally(skip_country_counter', hist'.last.lang)
              = Tally(skip_country_counter, hist'.last.lang) + 1]_vars

\* C7: every movie row has a country of the set loaded at run start, and a
\* candidate that passed the year check and whose first production country
\* is missing or unknown is not inserted, raises the country-skip counter by
\* one and tallies its original language.
C7_CountryValid ==
    /\ [](pc \in {"walk", "items", "except", "report"} =>
            \A r \in tx.movies : r.country \in countries)
    /\ [][(ItemStep /\ ~BadYear(Cand) /\ BadCountry(Cand)) =>
            /\ tx' = tx
            /\ cnt'.skipped_country = cnt.skipped_country + 1
            /\ hist'.last.lang =
                 Lower(OrStr(Cand.original_language, <<"u","n","k","n","o","w","n">>))
            /\ Tally(skip_country_counter', hist'.last.lang)
                  = Tally(skip_country_counter, hist'.last.lang) + 1]_vars

\* C7's case: with a movie written, a candidate of a good year was skipped
\* for its country and tallied under "unknown".
C7_Witness ==
    /\ hist.last.kind = "item"
    /\ hist.last.outcome = "country"
    /\ tx.movies # {}
    /\ Tally(skip_country_counter, <<"u","n","k","n","o","w","n">>) = 1

\* C8: when a movie stored by an earlier run is discovered again and found in
\* the Key Index, no movie row is written and every alternate title of the
\* response is in alt_titles for that movie after the pass.
C8_AltTitlesAdded ==
    [][(/\ ItemStep
        /\ run >= 2
        /\ hist'.last.outcome = "known"
        /\ \E r \in hist.dbAtStart.movies : r.movieid = movies_key[hist'.last.key]) =>
            /\ tx'.movies = tx.movies
            /\ \A x \in Range(Cand.alternative_titles) :
                  (x # None /\ x # <<>>) =>
                      [movieid |-> movies_key[hist'.last.key],
                       title |-> trim(x, AltTitleLimit)] \in tx'.alt_titles]_vars

\* The peopleids with a credit of the role for the movie.
Credited(t, movieid, credited_as) ==
    {r[2] : r \in {x \in Range(t.credits) : x[1] = movieid /\ x[3] = credited_as}}

CrewDirectors(d) == {c \in Range(d.crew) : c.job = "Director" /\ Usable(c)}
CastDirecting(d) == {c \in Range(d.cast) : c.known_for_department = "Directing" /\ Usable(c)}

\* The scenario: a crew entry with job Director and a cast entry of the
\* Directing department.
DirectorScenario(d) == CrewDirectors(d) # {} /\ CastDirecting(d) # {}

\* C9 as stated: in the scenario, the crew director and the cast member of
\* the Directing department both have a 'D' credit for the movie.
C9_Original ==
    (LastInserted /\ DirectorScenario(LastDetail)) =>
        \A c \in CrewDirectors(LastDetail) \cup CastDirecting(LastDetail) :
            PersonOf(c) \in Credited(tx, hist.last.movieid, "D")

\* C9: in the scenario, the 'D' credits of the movie are those of the crew
\* entries with job Director, and the cast member of the Directing department
\* has none.
C9_CrewOnly ==
    (LastInserted /\ DirectorScenario(LastDetail)) =>
        /\ Credited(tx, hist.last.movieid, "D")
              = {PersonOf(c) : c \in CrewDirectors(LastDetail)}
        /\ \A c \in CastDirecting(LastDetail) :
              (\A d \in CrewDirectors(LastDetail) : EntryKey(d) # EntryKey(c))
                  => PersonOf(c) \notin Credited(tx, hist.last.movieid, "D")

\* C9's case: a movie of the scenario was written, its cast member of the
\* Directing department credited as an actor.
C9_Witness ==
    /\ LastInserted
    /\ DirectorScenario(LastDetail)
    /\ \E c \in CastDirecting(LastDetail) :
          PersonOf(c) \in Credited(tx, hist.last.movieid, "A")

AllSlices == (START_YEAR..END_YEAR) \X (1..Len(RANGES))

C11_ExitStatus ==
    /\ pc = "exited" => (status = {0} <=> "main" \in Range(hist.commits))
    /\ hist.last.kind = "fatal" => (pc = "exited" /\ status = {1} /\ conn = "none")
    /\ (pc = "exited" /\ status = {1}) => db = hist.dbAtStart

\* C12: within a run no person id is requested from the source twice, and
\* the ids requested are those the cache holds.
C12_FetchOnce ==
    /\ \A i \in 1..Len(hist.fetches) : \A j \in 1..Len(hist.fetches) :
          hist.fetches[i] = hist.fetches[j] => i = j
    /\ pc \in {"walk", "items"} => person_cache = Range(hist.fetches)

\* C12's case: a run has written two movies, and get_person has answered
\* from the cache twice or more.
C12_Witness ==
    /\ LastInserted
    /\ cnt.new_movies = 2
    /\ hist.asked >= Len(hist.fetches) + 2

\* C13: every key of people_key is the (first_name, surname) pair stored in
\* the people row of its identity, so that the index in memory is one that
\* fetch_existing would load from the transaction's people table.
C13_PersonKeyIsStored ==
    pc \in {"walk", "items"} =>
        /\ \A k \in DOMAIN people_key :
              \E r \in tx.people : r.peopleid = people_key[k] /\ StoredPersonKey(r) = k
        /\ people_key \in PersonKeyMaps(tx.people)

\* The key main() computes for the candidate the next pass is for.
CandKey ==
    MovieKey(OrStr(OrStr(Cand.title, Cand.original_title), <<>>),
             TheYear(year_or_none(Cand.release_date)),
             derive_country(Cand, countries))

\* C14: a pass whose detail record arrived skips the candidate for its year
\* exactly when the year is bad, for its country exactly when the year is
\* good and the country bad, as known exactly when both are good and the key
\* is in movies_key; a skipped candidate leaves the tables, the sequences,
\* movies_key, people_key and the person cache as they were, requests no
\* person and raises nothing, and the loop goes on with the next item; one
\* with a bad year and a bad country raises the year-skip counter only.
C14_Rejection ==
    [][ItemStep =>
        /\ hist'.last.outcome = "year" <=> BadYear(Cand)
        /\ hist'.last.outcome = "country" <=> (~BadYear(Cand) /\ BadCountry(Cand))
        /\ hist'.last.outcome = "known" <=>
              (~BadYear(Cand) /\ ~BadCountry(Cand) /\ CandKey \in DOMAIN movies_key)
        /\ hist'.last.outcome \in {"year", "country", "known"} =>
              /\ tx' = tx
              /\ db' = db
              /\ seqs' = seqs
              /\ movies_key' = movies_key
              /\ people_key' = people_key
              /\ person_cache' = person_cache
              /\ hist'.fetches = hist.fetches
              /\ hist'.inserts = hist.inserts
              /\ cnt'.seen = cnt.seen + 1
              /\ pc' = "items"
              /\ results' = Tail(results)
        /\ (BadYear(Cand) /\ BadCountry(Cand)) =>
              /\ cnt'.skipped_year = cnt.skipped_year + 1
              /\ cnt'.skipped_country = cnt.skipped_country
              /\ skip_country_counter' = skip_country_counter]_vars

\* C14's case: in a later run a candidate of the year was found known, and
\* then one with a bad year and no country has been skipped for its year:
\* the tables are the committed ones and no language is tallied.
C14_Witness ==
    /\ run = 2
    /\ pc = "items"
    /\ hist.last.kind = "item"
    /\ hist.last.outcome = "year"
    /\ BadCountry(LastDetail)
    /\ cnt.seen = 2
    /\ cnt.inserted = 0
    /\ cnt.skipped_year = 1
    /\ cnt.skipped_country = 0
    /\ skip_country_counter = EmptyMap
    /\ tx.movies # {}
    /\ tx = db

\* C15: while the process is in the try block, every value of movies_key is
\* the movieid of a row of the transaction's movies, every value of
\* people_key is the peopleid of a row of its people and never the missing
\* identity, and every credits row names such rows; and a pass of the item
\* loop adds a key to movies_key only with the identity of a row it has just
\* inserted, and a key to people_key only after upsert_people was called for
\* that key, with the identity of the row that stores the key's names cut.
C15_IndexFollowsWrites ==
    /\ [](pc \in {"walk", "items", "except", "report"} =>
            /\ \A k \in DOMAIN movies_key :
                  \E r \in tx.movies : r.movieid = movies_key[k]
            /\ \A k \in DOMAIN people_key :
                  /\ people_key[k] # NoId
                  /\ \E r \in tx.people : r.peopleid = people_key[k]
            /\ \A c \in Range(tx.credits) :
                  /\ c[2] # NoId
                  /\ \E r \in tx.movies : r.movieid = c[1]
                  /\ \E r \in tx.people : r.peopleid = c[2])
    /\ [][pc = "items" =>
            /\ \A k \in DOMAIN movies_key' \ DOMAIN movies_key :
                  \E r \in tx'.movies \ tx.movies : r.movieid = movies_key'[k]
            /\ \A k \in DOMAIN movies_key : movies_key'[k] = movies_key[k]
            /\ \A k \in DOMAIN people_key' \ DOMAIN people_key :
                  /\ \E i \in (Len(hist.upserts) + 1)..Len(hist'.upserts) :
                        hist'.upserts[i] = k
                  /\ \E r \in tx'.people :
                        /\ r.peopleid = people_key'[k]
                        /\ r.first_name = trim(k[1], NameLimit)
                        /\ r.surname = trim(k[2], NameLimit)
            /\ \A k \in DOMAIN people_key : people_key'[k] = people_key[k]]_vars

\* C15's case: a movie was written with its credits, and upsert_people has
\* answered with the identity of a row that was there: people_key has more
\* keys than people has rows.
C15_Witness ==
    /\ LastInserted
    /\ movies_key # EmptyMap
    /\ tx.credits # <<>>
    /\ Cardinality(DOMAIN people_key) > Cardinality(tx.people)

\* The people row r is in the table with, at most, another gender.
Kept(r, people) ==
    \E r2 \in people : r2 = [r EXCEPT !.gender = r2.gender]

\* C16: every step keeps every committed people row, and every pass of the
\* item loop every people row of the transaction, with its peopleid,
\* first_name, surname, born and died; a pass that changes the gender of a
\* row has called upsert_people at least once without a row being added for
\* the call; and outside the item loop the transaction's people rows change
\* only by being dropped with the transaction.
C16_PersonImmutable ==
    [][/\ \A r \in db.people : Kept(r, db'.people)
       /\ pc = "items" =>
             /\ \A r \in tx.people : Kept(r, tx'.people)
             /\ (\E r \in tx.people : r \notin tx'.people) =>
                   Cardinality(tx'.people) - Cardinality(tx.people)
                       < Len(hist'.upserts) - Len(hist.upserts)
       /\ pc # "items" => tx'.people \in {tx.people, db.people}]_vars

\* C16's case: a later run has committed, and a person stored by an earlier
\* run has another gender now, in a table with as many rows as before.
C16_Witness ==
    /\ pc = "report"
    /\ run = 2
    /\ Cardinality(db.people) = Cardinality(hist.dbAtStart.people)
    /\ \E r \in hist.dbAtStart.people : r \notin db.people /\ Kept(r, db.people)

\* The entries the director loop is to take: the crew entries with job
\* Director if there is one, and otherwise the entries of the whole cast
\* with job Director or department Directing.
DirectorSource(d) ==
    IF \E c \in Range(d.crew) : c.job = "Director"
    THEN {c \in Range(d.crew) : c.job = "Director"}
    ELSE {c \in Range(d.cast) : c.job = "Director" \/ c.known_for_department = "Directing"}

\* C17: the 'D' credits of a movie just written are those of the usable
\* entries of its director source, for every movie of the catalogue.
C17_DirectorFallback ==
    LastInserted =>
        Credited(tx, hist.last.movieid, "D")
            = {PersonOf(c) : c \in {e \in DirectorSource(LastDetail) : Usable(e)}}

\* C17's case: a movie with no director in the crew was written, and a cast
\* entry after the first ACTOR_LIMIT has the 'D' credit and no 'A' credit.
C17_Witness ==
    /\ LastInserted
    /\ \A c \in Range(LastDetail.crew) : c.job # "Director"
    /\ \E i \in (ACTOR_LIMIT + 1)..Len(LastDetail.cast) :
          /\ LastDetail.cast[i] \in DirectorSource(LastDetail)
          /\ PersonOf(LastDetail.cast[i]) \in Credited(tx, hist.last.movieid, "D")
          /\ PersonOf(LastDetail.cast[i]) \notin Credited(tx, hist.last.movieid, "A")

\* The positions of the credits rows of the movie and the person.
CreditsAt(t, movieid, peopleid) ==
    {i \in 1..Len(t.credits) : t.credits[i][1] = movieid /\ t.credits[i][2] = peopleid}

\* The usable entries among the first ACTOR_LIMIT of the cast.
TopCast(d) ==
    {d.cast[i] : i \in {j \in 1..Min(Len(d.cast), ACTOR_LIMIT) : Usable(d.cast[j])}}

\* C18: no credits row is in the table twice, in the transaction and once
\* committed; and a person who is among the first ACTOR_LIMIT cast entries
\* and among the directors of a movie just written has two credits rows for
\* it, an 'A' and a 'D'.
C18_CreditUnique ==
    /\ \A t \in {tx, db} : \A i \in 1..Len(t.credits) : \A j \in 1..Len(t.credits) :
          t.credits[i] = t.credits[j] => i = j
    /\ LastInserted =>
          \A a \in TopCast(LastDetail) :
              \A d \in {e \in DirectorSource(LastDetail) : Usable(e)} :
                  PersonOf(a) = PersonOf(d) =>
                      /\ Cardinality(CreditsAt(tx, hist.last.movieid, PersonOf(a))) = 2
                      /\ {tx.credits[i][3] : i \in CreditsAt(tx, hist.last.movieid, PersonOf(a))}
                            = {"A", "D"}

\* C18's case: a batch held a row twice, so that fewer rows are stored than
\* the batches held, and a person has an 'A' and a 'D' row for one movie.
C18_Witness ==
    /\ LastInserted
    /\ cnt.new_credits > Len(tx.credits)
    /\ \E i \in 1..Len(tx.credits) : \E j \in 1..Len(tx.credits) :
          /\ tx.credits[i][1] = tx.credits[j][1]
          /\ tx.credits[i][2] = tx.credits[j][2]
          /\ tx.credits[i][3] = "A"
          /\ tx.credits[j][3] = "D"

\* ------------------------------------------------- the walk of tmdb_discover
\* tmdb_discover on its own, against a source that answers any total_pages:
\* the values a discover response can carry, and the values the constant
\* PAGE_LIMIT_PER_YEAR can be set to (None, as the program has it, or a
\* positive number of pages).
TotalPagesAnswers == {0, 1, 3, PageCeiling, PageCeiling + 1}
PageLimits == {NoInt, {1}, {2}}

\* total_pages taken as the source gives it.
ClampPages_none(tp) == tp

\* min(data.get("total_pages", 1), 500), line 105.
ClampPages(tp) == Min(tp, PageCeiling)

\* Lines 89-91: while page <= total_pages, and no break for the page limit.
MayRequest(pg, tp, limit) ==
    /\ pg <= tp
    /\ ~(limit # NoInt /\ \E l \in limit : pg > l)

\* started: the slices of the year for which a page was requested, in order;
\* req: the <<year, slice, page>> requested last.
WalkHist(started, req, kind) == [started |-> started, req |-> req, last |-> Step(kind)]

WalkInit ==
    /\ source \in {[page_limit |-> l] : l \in PageLimits}
    /\ run = 1
    /\ rev = 1
    /\ pc = "walk"
    /\ status = NoInt
    /\ conn = "open"
    /\ db = EmptyTables
    /\ tx = EmptyTables
    /\ seqs = [movies |-> 1, people |-> 1]
    /\ movies_key = EmptyMap
    /\ people_key = EmptyMap
    /\ countries = LoadedCountries
    /\ person_cache = {}
    /\ year = START_YEAR
    /\ slice = 1
    /\ page = 1
    /\ total_pages = 1
    /\ results = <<>>
    /\ cnt = ZeroCnt
    /\ skip_country_counter = EmptyMap
    /\ hist = WalkHist(<<>>, <<>>, "none")

\* Lines 92-106: the loop test passes, the page is requested, total_pages is
\* taken from the answer and the page is yielded.
WalkRequest ==
    /\ pc = "walk"
    /\ MayRequest(page, total_pages, source.page_limit)
    /\ \E tp \in TotalPagesAnswers : total_pages' = ClampPages(tp)
    /\ pc' = "items"
    /\ hist' = WalkHist(IF page = 1 THEN Append(hist.started, slice) ELSE hist.started,
                        <<year, slice, page>>, "discover")
    /\ UNCHANGED <<source, run, rev, status, conn, db, tx, seqs, year, slice, page, results,
                   memVars>>

\* Line 107: the generator is resumed, page += 1.
WalkResume ==
    /\ pc = "items"
    /\ page' = page + 1
    /\ pc' = "walk"
    /\ hist' = [hist EXCEPT !.last = Step("next_page")]
    /\ UNCHANGED <<source, run, rev, status, conn, db, tx, seqs, year, slice, total_pages,
                   results, memVars>>

\* The loop of the slice ends, and RANGES has another slice (lines 87-88).
WalkNextSlice ==
    /\ pc = "walk"
    /\ ~MayRequest(page, total_pages, source.page_limit)
    /\ slice < Len(RANGES)
    /\ slice' = slice + 1
    /\ page' = 1
    /\ total_pages' = 1
    /\ hist' = [hist EXCEPT !.last = Step("next_slice")]
    /\ UNCHANGED <<source, run, rev, pc, status, conn, db, tx, seqs, year, results, memVars>>

\* The generator of the year is exhausted, and main() calls tmdb_discover
\* for the next year (line 259).
WalkNextYear ==
    /\ pc = "walk"
    /\ ~MayRequest(page, total_pages, source.page_limit)
    /\ slice = Len(RANGES)
    /\ ~LastYear(year)
    /\ year' = year + 1
    /\ slice' = 1
    /\ page' = 1
    /\ total_pages' = 1
    /\ hist' = WalkHist(<<>>, hist.req, "next_year")
    /\ UNCHANGED <<source, run, rev, pc, status, conn, db, tx, seqs, results, memVars>>

\* The generator of the last year is exhausted.
WalkEnd ==
    /\ pc = "walk"
    /\ ~MayRequest(page, total_pages, source.page_limit)
    /\ slice = Len(RANGES)
    /\ LastYear(year)
    /\ pc' = "report"
    /\ hist' = [hist EXCEPT !.last = Step("commit")]
    /\ UNCHANGED <<source, run, rev, status, conn, db, tx, seqs, walkVars, memVars>>

WalkNext ==
    \/ WalkRequest
    \/ WalkResume
    \/ WalkNextSlice
    \/ WalkNextYear
    \/ WalkEnd

\* A generator that is resumed goes on: every step that can be taken is taken.
WalkSpec == WalkInit /\ [][WalkNext]_vars /\ WF_vars(WalkNext)

\* C19: the page requested is never above 500 nor above the page limit; a
\* request is for page 1 of a slice not requested from before, or for the
\* page after the one requested last in the same slice; when the walk leaves
\* a slice it has requested a page of it, and when it leaves a year it has
\* started the four slices, once each and in order; and the walk of the
\* years ends, whatever total_pages the answers carry.
C19_WalkBounded ==
    /\ [](pc = "items" =>
            /\ page <= PageCeiling
            /\ \A l \in source.page_limit : page <= l)
    /\ [][(pc = "walk" /\ pc' = "items") =>
            \/ page = 1 /\ (hist.req = <<>> \/ <<hist.req[1], hist.req[2]>> # <<year, slice>>)
            \/ page > 1 /\ hist.req = <<year, slice, page - 1>>]_vars
    /\ [][(pc = "walk" /\ pc' # "items") =>
            /\ hist.req # <<>>
            /\ <<hist.req[1], hist.req[2]>> = <<year, slice>>
            /\ (slice = Len(RANGES) => hist.started = RANGES)]_vars
    /\ <>(pc = "report")

\* C19's case: page 500 of the last slice of a year was requested, and the
\* answer said there are no pages.
C19_Witness ==
    /\ pc = "items"
    /\ slice = Len(RANGES)
    /\ page = PageCeiling
    /\ total_pages = 0
    /\ hist.started = RANGES

\* The entries the cast loop and the director loop of a movie take, in order.
LoopEntries(d) == SubSeq(d.cast, 1, Min(Len(d.cast), ACTOR_LIMIT)) \o Directors(d)

\* A sequence without the repetitions of its elements.
RECURSIVE Distinct(_)
Distinct(q) ==
    IF q = <<>> THEN <<>>
    ELSE LET r == Distinct(SubSeq(q, 1, Len(q) - 1))
         IN  IF q[Len(q)] \in Range(r) THEN r ELSE Append(r, q[Len(q)])

\* The person keys of the movie's usable entries that people_key does not
\* have, each once, in the order of the loops.
UnknownKeys(d) ==
    Distinct([i \in 1..Len(SelectSeq(LoopEntries(d),
                                     LAMBDA e : Usable(e) /\ EntryKey(e) \notin DOMAIN people_key))
                 |-> EntryKey(SelectSeq(LoopEntries(d),
                                        LAMBDA e : Usable(e)
                                                   /\ EntryKey(e) \notin DOMAIN people_key)[i])])

\* C20: upsert_people is called for no key twice in a run; a pass that writes
\* a movie calls it for the keys of the movie's entries that people_key does
\* not have, once each, and for no key that people_key has; and a people row
\* changes or is added only in a pass that calls it.
C20_ReuseNoWrite ==
    /\ [](\A i \in 1..Len(hist.upserts) : \A j \in 1..Len(hist.upserts) :
            hist.upserts[i] = hist.upserts[j] => i = j)
    /\ [][ItemStep =>
            /\ hist'.last.outcome = "inserted" =>
                  hist'.upserts = hist.upserts \o UnknownKeys(Cand)
            /\ \A i \in (Len(hist.upserts) + 1)..Len(hist'.upserts) :
                  hist'.upserts[i] \notin DOMAIN people_key
            /\ hist'.upserts = hist.upserts => tx'.people = tx.people]_vars

\* C20's case: in a later run a movie was written again, and an entry of its
\* loops has a key that was loaded at the start and not written since: the
\* row has another gender and another year of birth than the entry's person.
C20_Witness ==
    /\ run = 2
    /\ LastInserted
    /\ \E i \in 1..Len(LoopEntries(LastDetail)) :
          /\ Usable(LoopEntries(LastDetail)[i])
          /\ EntryKey(LoopEntries(LastDetail)[i]) \notin Range(hist.upserts)
          /\ \E r \in tx.people :
                /\ r.peopleid = PersonOf(LoopEntries(LastDetail)[i])
                /\ r.gender # gender_map(LoopEntries(LastDetail)[i].gender)
                /\ r.born # UnknownBorn
                /\ r.born \notin year_or_none(PersonDetail(LoopEntries(LastDetail)[i].id).birthday)
                /\ r \in hist.dbAtStart.people

====
